---- MODULE Spec2Model ----
(***************************************************************************)
(* Frame normalisation, sequence flattening and video/still export of      *)
(* scripts/zeroscope_generate.py.                                          *)
(*                                                                         *)
(* An ndarray is a record [shape, dtype, data]: data is the C-order        *)
(* (row-major) flattening of the elements.  A floating-point element is    *)
(* the integer numerator of a fraction over Den (so 0.5 is Den/2 over Den  *)
(* and the product by 255 is exact), or one of the three codes NaN,        *)
(* PosInf, NegInf.  An integer element is the integer itself.              *)
(***************************************************************************)
EXTENDS Integers, Sequences, FiniteSets, TLC

VARIABLES
    nPc, nIn, nOut,          \* one call of _normalize_hwcn: position, argument, result
    fPc, fSeq, fFlat,        \* one call of _flatten_frames: position, argument, result
    run,                     \* number of the current run of the script
    env,                     \* what the machine offers to the current run
    saveDir,                 \* --save-frames-dir was given
    mPc,                     \* position in main
    mFrames,                 \* main's frames
    dumped,                  \* the stills the current run wrote to --save-frames-dir
    printed,                 \* the artifact lines the current run printed
    ePc,                     \* position in export_frames_to_video
    flat,                    \* frames after line 103
    u8_frames,               \* u8_frames, as far as line 104 has built it
    loopI,                   \* i of the still loops
    err,                     \* the exception that ended the call, or "none"
    log,                     \* what the current export call did to the outside
    target,                  \* file at out_path: <<>> or <<its content>>
    preTarget,               \* target when the current export call began
    framesDir,               \* directory <stem>_frames exists
    stills,                  \* frame_%04d.png in <stem>_frames, by index
    dRun,                    \* number of the current run of hf_download.py
    dPc,                     \* position in hf_download.py's main
    dArgs,                   \* --revision, --include and --exclude of the current run
    dExit,                   \* exit status of the current run, -1 while it runs
    destFiles,               \* files under dest_dir: <<>> or <<blob>>, by path
    lockFile                 \* <dest_dir>.lock.json: <<>> or <<its content>>

nvars == <<nPc, nIn, nOut>>
fvars == <<fPc, fSeq, fFlat>>
mvars == <<run, env, saveDir, mPc, mFrames, dumped, printed>>
evars == <<ePc, flat, u8_frames, loopI, err, log>>
fsvars == <<target, preTarget, framesDir, stills>>
dvars == <<dRun, dPc, dArgs, dExit, destFiles, lockFile>>
vars == <<nPc, nIn, nOut, fPc, fSeq, fFlat, run, env, saveDir, mPc, mFrames, dumped,
          printed, ePc, flat, u8_frames, loopI, err, log, target, preTarget, framesDir, stills,
          dRun, dPc, dArgs, dExit, destFiles, lockFile>>

----------------------------------------------------------------------------
(* Bounds *)

MaxDim == 3        \* every axis of an input has length 1..MaxDim
MaxRank == 5       \* inputs have 1..MaxRank axes
MaxElems == 32     \* inputs have at most MaxElems elements
FracSteps == 1     \* floating-point values are multiples of 1/(2*FracSteps)
MaxLead == 2       \* every axis of an element given to _flatten_frames has length 1..MaxLead
MaxSeq == 2        \* _flatten_frames is given at most MaxSeq elements
MaxFrames == 3     \* the pipeline returns at most MaxFrames frames
MaxRuns == 2       \* a script is run at most MaxRuns times on the same destination
MaxRevs == 2       \* the repository has the commits 1..MaxRevs

----------------------------------------------------------------------------
(* Element values *)

Den == 2 * FracSteps

NaN == 7001
PosInf == 7002
NegInf == 7003

IsFinite(x) == x \notin {NaN, PosInf, NegInf}

Min2(a, b) == IF a < b THEN a ELSE b
Max2(a, b) == IF a > b THEN a ELSE b

----------------------------------------------------------------------------
(* ndarray helpers *)

RECURSIVE Prod(_)
Prod(s) == IF s = <<>> THEN 1 ELSE Head(s) * Prod(Tail(s))

Size(a) == Len(a.data)

Ndim(a) == Len(a.shape)

Arr(shape, dtype, data) == [shape |-> shape, dtype |-> dtype, data |-> data]

\* a.shape[-k]
Last(s, k) == s[Len(s) - k + 1]

Map(a, F(_)) == Arr(a.shape, a.dtype, [k \in 1..Len(a.data) |-> F(a.data[k])])

\* np.squeeze(a): drop every axis of length 1
Squeeze(a) == Arr(SelectSeq(a.shape, LAMBDA d : d # 1), a.dtype, a.data)

\* np.squeeze(a, axis=0), used when a.shape[0] == 1
SqueezeAxis0(a) == Arr(Tail(a.shape), a.dtype, a.data)

\* a[i] for 0 <= i < a.shape[0]
Slice(a, i) ==
    LET n == Prod(Tail(a.shape))
    IN  Arr(Tail(a.shape), a.dtype, SubSeq(a.data, i * n + 1, (i + 1) * n))

\* np.moveaxis(a, 0, -1) on a 3-axis array: out[b,c,x] = a[x,b,c]
MoveAxis0(a) ==
    LET A == a.shape[1]
        B == a.shape[2]
        C == a.shape[3]
    IN  Arr(<<B, C, A>>, a.dtype,
            [k \in 1..Len(a.data) |->
                LET k0 == k - 1
                    b == k0 \div (C * A)
                    c == (k0 \div A) % C
                    x == k0 % A
                IN  a.data[x * B * C + b * C + c + 1]])

\* np.moveaxis(a, 1, -1) on a 3-axis array: out[x,c,b] = a[x,b,c]
MoveAxis1(a) ==
    LET A == a.shape[1]
        B == a.shape[2]
        C == a.shape[3]
    IN  Arr(<<A, C, B>>, a.dtype,
            [k \in 1..Len(a.data) |->
                LET k0 == k - 1
                    x == k0 \div (C * B)
                    c == (k0 \div B) % C
                    b == k0 % B
                IN  a.data[x * B * C + b * C + c + 1]])

\* np.stack([a, a, a], axis=-1): out[..., c] = a[...]
Stack3(a) ==
    Arr(a.shape \o <<3>>, a.dtype,
        [k \in 1..(3 * Len(a.data)) |-> a.data[((k - 1) \div 3) + 1]])

\* np.repeat(a, 3, axis=-1): every element of the last axis three times
Repeat3(a) ==
    Arr(SubSeq(a.shape, 1, Len(a.shape) - 1) \o <<3 * Last(a.shape, 1)>>, a.dtype,
        [k \in 1..(3 * Len(a.data)) |-> a.data[((k - 1) \div 3) + 1]])

\* np.atleast_3d(a)
AtLeast3d(a) ==
    CASE Ndim(a) = 0 -> Arr(<<1, 1, 1>>, a.dtype, a.data)
      [] Ndim(a) = 1 -> Arr(<<1, a.shape[1], 1>>, a.dtype, a.data)
      [] Ndim(a) = 2 -> Arr(<<a.shape[1], a.shape[2], 1>>, a.dtype, a.data)
      [] OTHER -> a

----------------------------------------------------------------------------
(* _normalize_hwcn *)

NoArr == Arr(<<>>, "none", <<>>)

Raised == [ok |-> FALSE, arr |-> NoArr]
Ok(a) == [ok |-> TRUE, arr |-> a]

\* a.reshape(a.shape[-3], a.shape[-2], a.shape[-1]): ValueError unless the
\* element counts agree
ReshapeLast3(a) ==
    LET s == <<Last(a.shape, 3), Last(a.shape, 2), Last(a.shape, 1)>>
    IN  IF Prod(s) = Size(a) THEN Ok(Arr(s, a.dtype, a.data)) ELSE Raised

\* "Ensure channel-last" and "If single-channel, replicate to RGB"
ChannelLast(a) ==
    LET m == IF Last(a.shape, 1) \notin {1, 3}
             THEN IF a.shape[1] \in {1, 3} THEN MoveAxis0(a)
                  ELSE IF a.shape[2] \in {1, 3} THEN MoveAxis1(a)
                  ELSE a
             ELSE a
    IN  IF Last(m.shape, 1) = 1 THEN Repeat3(m) ELSE m

\* "Fallback: try to coerce to HWC"
Fallback(a) ==
    LET b == AtLeast3d(a)
    IN  IF Last(b.shape, 1) \notin {1, 3} /\ b.shape[1] \in {1, 3}
        THEN MoveAxis0(b) ELSE b

\* lines 44-67: the shape part; a result that raised or a 3-axis layout
ToHWC(arr) ==
    LET a == Squeeze(arr)
        r == IF Ndim(a) > 3 THEN ReshapeLast3(a) ELSE Ok(a)
    IN  IF ~r.ok THEN Raised
        ELSE IF Ndim(r.arr) = 2 THEN Ok(Stack3(r.arr))
        ELSE IF Ndim(r.arr) = 3 THEN Ok(ChannelLast(r.arr))
        ELSE Ok(Fallback(r.arr))

\* NanToNum with the replacements of the two infinities exchanged
NanToNum_Swapped(x) ==
    CASE x = NaN -> 0
      [] x = PosInf -> 0
      [] x = NegInf -> Den
      [] OTHER -> x

\* np.nan_to_num(a, nan=0.0, posinf=1.0, neginf=0.0) on one element
NanToNum(x) ==
    CASE x = NaN -> 0
      [] x = PosInf -> Den
      [] x = NegInf -> 0
      [] OTHER -> x

\* np.clip(x, 0.0, 1.0) on one finite floating-point element
Clip01(x) == Max2(0, Min2(Den, x))

\* Scale255 with a rounding step before the cast: np.round(x * 255.0)
Scale255_Rounded(x) ==
    LET f == (x * 255) \div Den
        r2 == 2 * ((x * 255) % Den)
    IN  IF r2 < Den THEN f ELSE IF r2 > Den THEN f + 1 ELSE IF f % 2 = 0 THEN f ELSE f + 1

\* (x * 255.0).astype(np.uint8) on one element of [0,1]: the cast truncates
Scale255(x) == (x * 255) \div Den

\* np.clip(x, 0, 255).astype(np.uint8) on one integer element
ClipInt(x) == Max2(0, Min2(255, x))

\* lines 68-76 on one element
ToUint8(dtype, x) ==
    IF dtype = "float" THEN Scale255(Clip01(NanToNum(x))) ELSE ClipInt(x)

\* lines 68-76
CastScale(a) ==
    IF a.dtype = "uint8" THEN a
    ELSE Arr(a.shape, "uint8", [k \in 1..Len(a.data) |-> ToUint8(a.dtype, a.data[k])])

_normalize_hwcn(arr) ==
    LET r == ToHWC(arr)
    IN  IF r.ok THEN Ok(CastScale(r.arr)) ELSE Raised

----------------------------------------------------------------------------
(* _flatten_frames *)

\* lines 92-93: while a.ndim > 3 and a.shape[0] == 1: squeeze axis 0
RECURSIVE StripLeading(_)
StripLeading(a) ==
    IF Ndim(a) > 3 /\ a.shape[1] = 1 THEN StripLeading(SqueezeAxis0(a)) ELSE a

\* FlattenOne splitting only elements of exactly 4 axes
FlattenOne_Rank4Only(f) ==
    LET a == StripLeading(f)
    IN  IF Ndim(a) = 4 /\ a.shape[1] > 1
        THEN [i \in 1..a.shape[1] |-> Slice(a, i - 1)]
        ELSE <<a>>

\* lines 90-98: what one element of seq appends to flat
FlattenOne(f) ==
    LET a == StripLeading(f)
    IN  IF Ndim(a) > 3 /\ a.shape[1] > 1
        THEN [i \in 1..a.shape[1] |-> Slice(a, i - 1)]
        ELSE <<a>>

RECURSIVE _flatten_frames(_)
_flatten_frames(seq) ==
    IF seq = <<>> THEN <<>>
    ELSE FlattenOne(Head(seq)) \o _flatten_frames(Tail(seq))

----------------------------------------------------------------------------
(* Inputs *)

RECURSIVE Shapes(_)
Shapes(n) ==
    IF n = 0 THEN {<<>>}
    ELSE {<<d>> \o s : d \in 1..MaxDim, s \in Shapes(n - 1)}

InputShapes ==
    {s \in UNION {Shapes(n) : n \in 1..MaxRank} : Prod(s) <= MaxElems}

UnitVals == [i \in 1..(Den + 1) |-> i - 1]
FloatVals == <<0 - 1>> \o UnitVals \o <<Den + 1, NaN, PosInf, NegInf>>
IntVals == <<0 - 1, 0, 1, 128, 255, 256, 300>>

Range(s) == {s[i] : i \in 1..Len(s)}

\* the elements cycle through vals, starting at offset off
Cyc(shape, dtype, vals, off) ==
    Arr(shape, dtype, [k \in 1..Prod(shape) |-> vals[((k - 1 + off) % Len(vals)) + 1]])

Fill(shape, dtype, v) == Arr(shape, dtype, [k \in 1..Prod(shape) |-> v])

\* uint8 content that tells the positions apart
Ramp(shape) == Arr(shape, "uint8", [k \in 1..Prod(shape) |-> (k - 1) % 256])

Inputs ==
    UNION { {Fill(s, "float", v) : v \in Range(FloatVals)}
            \cup {Cyc(s, "float", UnitVals, 0), Cyc(s, "float", FloatVals, 0),
                  Cyc(s, "float", FloatVals, 2)}
            \cup {Cyc(s, "int", IntVals, 0), Ramp(s)} : s \in InputShapes }

RECURSIVE LeadShapes(_)
LeadShapes(n) ==
    IF n = 0 THEN {<<>>}
    ELSE {<<d>> \o sh : d \in 1..MaxLead, sh \in LeadShapes(n - 1)}

\* the elements a pipeline hands to _flatten_frames: 3 to MaxRank axes
FlatElems ==
    {Ramp(sh) : sh \in {t \in UNION {LeadShapes(n) : n \in 3..MaxRank} : Prod(t) <= MaxElems}}

RECURSIVE SeqsUpTo(_, _)
SeqsUpTo(S, n) ==
    IF n = 0 THEN {<<>>}
    ELSE {<<>>} \cup {<<x>> \o t : x \in S, t \in SeqsUpTo(S, n - 1)}

\* a single frame, a stack of two frames, a stack behind a batch axis
Companions == {Ramp(<<2, 2, 2>>), Ramp(<<2, 2, 2, 2>>), Ramp(<<1, 2, 2, 2, 2>>)}

\* the sequences given to _flatten_frames: any element of FlatElems, before
\* or after up to MaxSeq - 1 companions
FlatInputs ==
    {<<>>}
    \cup {<<x>> \o t : x \in FlatElems, t \in SeqsUpTo(Companions, MaxSeq - 1)}
    \cup {t \o <<x>> : x \in FlatElems, t \in SeqsUpTo(Companions, MaxSeq - 1)}

----------------------------------------------------------------------------
(* hf_download.py *)

RepoPaths == {"config.json", "model.safetensors", "model.bin"}

\* the files of the repository at a commit: odd commits still carry the
\* pickle weights
RepoTree(commit) ==
    IF commit % 2 = 1 THEN RepoPaths ELSE RepoPaths \ {"model.bin"}

\* the content of a repository file at a commit
Blob(path, commit) == [path |-> path, commit |-> commit]

\* sha256_file, lines 33-41: a digest names the content it was computed from
sha256_file(blob) == [sha256_of |-> blob]

\* p.stat().st_size
StSize(blob) ==
    blob.commit + (CASE blob.path = "config.json" -> 10
                     [] blob.path = "model.safetensors" -> 20
                     [] OTHER -> 30)

\* a comma-separated argument is the sequence of its fields; a field is a
\* pattern with or without blanks around it, or only blanks
Field(pat, blanks) == [pat |-> pat, blanks |-> blanks]

\* p.strip()
Strip(field) == field.pat

\* parse_patterns, lines 44-47
parse_patterns(csv) ==
    LET stripped == [k \in 1..Len(csv) |-> Strip(csv[k])]
    IN  SelectSeq(stripped, LAMBDA q : q # "")

\* fnmatch of a path against "*.<extension>"
Matches(path, pat) ==
    CASE pat = "*.json" -> path = "config.json"
      [] pat = "*.safetensors" -> path = "model.safetensors"
      [] pat = "*.bin" -> path = "model.bin"
      [] OTHER -> FALSE

\* snapshot_download's filter: allow_patterns=allow or None,
\* ignore_patterns=ignore or None (lines 83-84)
Selected(tree, allow, ignore) ==
    {q \in tree :
        /\ allow = <<>> \/ \E k \in 1..Len(allow) : Matches(q, allow[k])
        /\ ~\E k \in 1..Len(ignore) : Matches(q, ignore[k])}

IncludeArgs ==
    {<<>>,
     <<Field("*.safetensors", FALSE), Field("*.json", FALSE)>>,
     <<Field("*.json", TRUE), Field("", TRUE)>>,
     <<Field("*.bin", FALSE)>>}

ExcludeArgs == {<<>>, <<Field("*.bin", FALSE)>>, <<Field("*.json", TRUE)>>}

DownloadArgs == [revision : 1..MaxRevs, include : IncludeArgs, exclude : ExcludeArgs]

NoFiles == [q \in RepoPaths |-> <<>>]

IdleDownload ==
    /\ dRun = 0 /\ dPc = "idle"
    /\ dArgs = [revision |-> 1, include |-> <<>>, exclude |-> <<>>]
    /\ dExit = 0 - 1
    /\ destFiles = NoFiles /\ lockFile = <<>>

\* lines 51-55: huggingface_hub is missing, main returns 2
MissingHub ==
    /\ dPc = "start"
    /\ dPc' = "done" /\ dExit' = 2
    /\ UNCHANGED <<dRun, dArgs, destFiles, lockFile, nvars, fvars, mvars, evars, fsvars>>

\* lines 69-74: model_info raises, main returns 1
ModelInfoFails ==
    /\ dPc = "start"
    /\ dPc' = "done" /\ dExit' = 1
    /\ UNCHANGED <<dRun, dArgs, destFiles, lockFile, nvars, fvars, mvars, evars, fsvars>>

\* lines 57-79: the arguments are parsed, the commit is resolved, dest_dir exists
ResolveCommit ==
    /\ dPc = "start"
    /\ dPc' = "download"
    /\ UNCHANGED <<dRun, dArgs, dExit, destFiles, lockFile, nvars, fvars, mvars, evars, fsvars>>

\* dest_dir after snapshot_download has written the files of wanted
Materialize(wanted, commit) ==
    [q \in RepoPaths |-> IF q \in wanted THEN <<Blob(q, commit)>> ELSE destFiles[q]]

\* lines 81-92: snapshot_download raises after some files, main returns 1
SnapshotFails ==
    /\ dPc = "download"
    /\ \E part \in SUBSET Selected(RepoTree(dArgs.revision),
                                  parse_patterns(dArgs.include),
                                  parse_patterns(dArgs.exclude)) :
          destFiles' = Materialize(part, dArgs.revision)
    /\ dPc' = "done" /\ dExit' = 1
    /\ UNCHANGED <<dRun, dArgs, lockFile, nvars, fvars, mvars, evars, fsvars>>

\* lines 81-88: snapshot_download writes the selected files into dest_dir
SnapshotOk ==
    /\ dPc = "download"
    /\ destFiles' = Materialize(Selected(RepoTree(dArgs.revision),
                                         parse_patterns(dArgs.include),
                                         parse_patterns(dArgs.exclude)),
                                dArgs.revision)
    /\ dPc' = "hash"
    /\ UNCHANGED <<dRun, dArgs, dExit, lockFile, nvars, fvars, mvars, evars, fsvars>>

\* lines 94-102: one entry for every file found under dest_dir
HashedFiles ==
    {[path |-> q, sha256 |-> sha256_file(destFiles[q][1]), size |-> StSize(destFiles[q][1])] :
        q \in {r \in RepoPaths : destFiles[r] # <<>>}}

\* lines 94-122: the lock file is written, main returns 0
WriteLock ==
    /\ dPc = "hash"
    /\ lockFile' = <<[revision |-> dArgs.revision,
                      resolved_commit |-> dArgs.revision,
                      allow_patterns |-> parse_patterns(dArgs.include),
                      ignore_patterns |-> parse_patterns(dArgs.exclude),
                      files |-> HashedFiles]>>
    /\ dPc' = "done" /\ dExit' = 0
    /\ UNCHANGED <<dRun, dArgs, destFiles, nvars, fvars, mvars, evars, fsvars>>

\* the downloader is run again with the same --repo and --dest
NextDownload ==
    /\ dPc = "done" /\ dRun < MaxRuns
    /\ dRun' = dRun + 1
    /\ dArgs' \in DownloadArgs
    /\ dPc' = "start" /\ dExit' = 0 - 1
    /\ UNCHANGED <<destFiles, lockFile, nvars, fvars, mvars, evars, fsvars>>

----------------------------------------------------------------------------
(* export_frames_to_video and main: state *)

List(items) == [kind |-> "list", items |-> items, arr |-> NoArr]
NdArray(a) == [kind |-> "ndarray", items |-> <<>>, arr |-> a]

\* for f in frames: a list yields its items, an ndarray its slices along axis 0
Iterate(fr) ==
    IF fr.kind = "list" THEN fr.items
    ELSE [j \in 1..fr.arr.shape[1] |-> Slice(fr.arr, j - 1)]

\* _to_uint8_frames: the list of normalized frames, or the first error
_to_uint8_frames(frames) ==
    IF \A j \in 1..Len(frames) : _normalize_hwcn(frames[j]).ok
    THEN [ok |-> TRUE, frames |-> [j \in 1..Len(frames) |-> _normalize_hwcn(frames[j]).arr]]
    ELSE [ok |-> FALSE, frames |-> <<>>]

Ev(op, idx) == [op |-> op, idx |-> idx]

Ops(l) == {l[j].op : j \in 1..Len(l)}

NoStills == [j \in 0..(MaxFrames - 1) |-> <<>>]

\* what "-loopI frame_%04d.png" reads: the stills from index 0 up to the first gap
RECURSIVE ImageSequence(_, _)
ImageSequence(dir, j) ==
    IF j >= MaxFrames \/ dir[j] = <<>> THEN <<>>
    ELSE <<dir[j][1]>> \o ImageSequence(dir, j + 1)

\* what the pipeline may return as frames (lines 226-236)
HWC == <<2, 2, 3>>

PlainFrames(n) == List([j \in 1..n |-> Cyc(HWC, "float", FloatVals, j)])
StackedFrames(n) == List(<<Ramp(<<n>> \o HWC)>>)
Batch4(n) == NdArray(Ramp(<<n>> \o HWC))
Batch5(n) == NdArray(Ramp(<<1, n>> \o HWC))
DeepFrames == List(<<Fill(HWC, "float", Den), Ramp(<<2, 2>> \o HWC)>>)

PipelineFrames ==
    {PlainFrames(n) : n \in 1..MaxFrames}
    \cup {StackedFrames(n) : n \in 2..MaxFrames}
    \cup {Batch4(n) : n \in 1..MaxFrames}
    \cup {Batch5(n) : n \in 2..MaxFrames}
    \cup {DeepFrames}

\* deps: torch and diffusers import; lib: export_to_video works;
\* ffmpeg: the binary is absent, works, or exits with an error
Envs ==
    [deps : {TRUE}, lib : BOOLEAN, ffmpeg : {"absent", "ok", "fails"}]
    \cup {[deps |-> FALSE, lib |-> FALSE, ffmpeg |-> "absent"]}

IdleNorm == nPc = "idle" /\ nIn = NoArr /\ nOut = Raised
IdleFlat == fPc = "idle" /\ fSeq = <<>> /\ fFlat = <<>>

IdleExport ==
    /\ ePc = "idle" /\ flat = <<>> /\ u8_frames = <<>> /\ loopI = 0
    /\ err = "none" /\ log = <<>>

IdleScript ==
    /\ run = 0 /\ env = [deps |-> FALSE, lib |-> FALSE, ffmpeg |-> "absent"]
    /\ saveDir = FALSE /\ mPc = "idle" /\ mFrames = List(<<>>)
    /\ dumped = <<>> /\ printed = <<>>
    /\ IdleExport
    /\ target = <<>> /\ preTarget = <<>> /\ framesDir = FALSE /\ stills = NoStills

----------------------------------------------------------------------------
(* main, lines 130-264 *)

\* a run starts: what the machine offers, the arguments, the pipeline's result
StartRun(e, sd, fr) ==
    /\ env' = e
    /\ saveDir' = sd
    /\ mFrames' = fr
    /\ mPc' = "start"
    /\ dumped' = <<>>
    /\ printed' = <<>>
    /\ ePc' = "idle" /\ flat' = <<>> /\ u8_frames' = <<>> /\ loopI' = 0
    /\ err' = "none" /\ log' = <<>>

\* lines 152-164: the imports fail, main prints and returns 2
MissingDeps ==
    /\ mPc = "start" /\ ~env.deps
    /\ printed' = <<"Missing dependencies">>
    /\ mPc' = "returned2"
    /\ UNCHANGED <<dvars, nvars, fvars, run, env, saveDir, mFrames, dumped, evars, fsvars>>

\* lines 215-253: the pipeline has run; a 4-axis ndarray is split into a list
RunPipeline ==
    /\ mPc = "start" /\ env.deps
    /\ mFrames' = IF mFrames.kind = "ndarray" /\ Ndim(mFrames.arr) = 4
                  THEN List(Iterate(mFrames)) ELSE mFrames
    /\ mPc' = IF saveDir THEN "dump" ELSE "export"
    /\ UNCHANGED <<dvars, nvars, fvars, run, env, saveDir, dumped, printed, evars, fsvars>>

\* lines 256-260: the optional dump of _to_uint8_frames(frames)
DumpFrames ==
    /\ mPc = "dump"
    /\ LET r == _to_uint8_frames(Iterate(mFrames))
       IN  /\ dumped' = r.frames
           /\ mPc' = IF r.ok THEN "export" ELSE "raised"
           /\ err' = IF r.ok THEN err ELSE "ValueError"
    /\ UNCHANGED <<dvars, nvars, fvars, run, env, saveDir, mFrames, printed,
                   ePc, flat, u8_frames, loopI, log, fsvars>>

\* line 262 returns or raises
ExportEnds ==
    /\ mPc = "export" /\ ePc \in {"returned", "raised"}
    /\ mPc' = IF ePc = "returned" THEN "print" ELSE "raised"
    /\ UNCHANGED <<dvars, nvars, fvars, run, env, saveDir, mFrames, dumped, printed, evars, fsvars>>

\* lines 263-264
PrintSaved ==
    /\ mPc = "print"
    /\ printed' = Append(printed, "Saved -> out_path")
    /\ mPc' = "returned0"
    /\ UNCHANGED <<dvars, nvars, fvars, run, env, saveDir, mFrames, dumped, evars, fsvars>>

\* the script is run again with the same --out; the files stay
NextRun ==
    /\ mPc \in {"returned0", "returned2", "raised"}
    /\ run < MaxRuns
    /\ run' = run + 1
    /\ \E e \in Envs, sd \in BOOLEAN, fr \in PipelineFrames : StartRun(e, sd, fr)
    /\ UNCHANGED <<dvars, nvars, fvars, fsvars>>

----------------------------------------------------------------------------
(* export_frames_to_video, lines 102-127 *)

\* u8_frames as a generator: a frame is normalized when the export needs it
U8FramesIsList_Generator == FALSE

\* line 104 builds a list: every frame is normalized before line 105
U8FramesIsList == TRUE

\* line 103
ExportFlatten ==
    /\ mPc = "export" /\ ePc = "idle"
    /\ flat' = _flatten_frames(Iterate(mFrames))
    /\ ePc' = "normalize"
    /\ preTarget' = target
    /\ UNCHANGED <<dvars, nvars, fvars, mvars, u8_frames, loopI, err, log, target, framesDir, stills>>

\* line 104, one frame of the comprehension
ExportNormalize ==
    /\ \/ ePc = "normalize"
       \/ ~U8FramesIsList /\ ePc \in {"probe", "mkdir", "save"}
    /\ Len(u8_frames) < Len(flat)
    /\ LET r == _normalize_hwcn(flat[Len(u8_frames) + 1])
       IN  IF r.ok
           THEN /\ u8_frames' = Append(u8_frames, r.arr)
                /\ UNCHANGED <<ePc, err>>
           ELSE /\ ePc' = "raised"
                /\ err' = "ValueError"
                /\ UNCHANGED u8_frames
    /\ UNCHANGED <<dvars, nvars, fvars, mvars, flat, loopI, log, fsvars>>

\* line 105 is reached
ExportBegins ==
    /\ ePc = "normalize"
    /\ U8FramesIsList => Len(u8_frames) = Len(flat)

\* ExportToVideoOk without the return of line 108
ExportToVideoOk_NoReturn ==
    /\ ExportBegins /\ env.lib
    /\ target' = <<[by |-> "export_to_video", frames |-> u8_frames]>>
    /\ log' = Append(log, Ev("export_to_video", 0))
    /\ ePc' = "probe"
    /\ UNCHANGED <<dvars, nvars, fvars, mvars, flat, u8_frames, loopI, err, preTarget, framesDir, stills>>

\* lines 105-108: export_to_video writes out_path, the function returns
ExportToVideoOk ==
    /\ ExportBegins /\ env.lib
    /\ target' = <<[by |-> "export_to_video", frames |-> u8_frames]>>
    /\ log' = Append(log, Ev("export_to_video", 0))
    /\ ePc' = "returned"
    /\ UNCHANGED <<dvars, nvars, fvars, mvars, flat, u8_frames, loopI, err, preTarget, framesDir, stills>>

\* lines 105-110: the import or the call raises, the exception is dropped
ExportToVideoFails ==
    /\ ExportBegins /\ ~env.lib
    /\ ePc' = "probe"
    /\ UNCHANGED <<dvars, nvars, fvars, mvars, flat, u8_frames, loopI, err, log, fsvars>>

\* lines 31-36 and 113: "ffmpeg -version" runs unless the binary is missing
have_ffmpeg ==
    /\ ePc = "probe"
    /\ IF env.ffmpeg = "absent"
       THEN UNCHANGED log
       ELSE log' = Append(log, Ev("ffmpeg -version", 0))
    /\ ePc' = "mkdir"
    /\ UNCHANGED <<dvars, nvars, fvars, mvars, flat, u8_frames, loopI, err, fsvars>>

\* lines 114-115 and 124-125: <stem>_frames is created if it is missing
MkFramesDir ==
    /\ ePc = "mkdir"
    /\ framesDir' = TRUE
    /\ log' = Append(log, Ev("mkdir", 0))
    /\ loopI' = 0
    /\ ePc' = "save"
    /\ UNCHANGED <<dvars, nvars, fvars, mvars, flat, u8_frames, err, target, preTarget, stills>>

\* the mkdir raises (the destination cannot be written)
MkFramesDirFails ==
    /\ ePc = "mkdir"
    /\ ~framesDir
    /\ ePc' = "raised"
    /\ err' = "OSError"
    /\ UNCHANGED <<dvars, nvars, fvars, mvars, flat, u8_frames, loopI, log, fsvars>>

\* the still loop stopping one frame early
StillsLoopDone_OffByOne == loopI >= Len(u8_frames) - 1

\* enumerate(u8_frames) of lines 116 and 126 is exhausted
StillsLoopDone == loopI = Len(u8_frames)

\* lines 116-117 and 126-127, one iteration: frame_{i:04d}.png is written
SaveStill ==
    /\ ePc = "save" /\ ~StillsLoopDone
    /\ loopI < Len(u8_frames)
    /\ stills' = [stills EXCEPT ![loopI] = <<u8_frames[loopI + 1]>>]
    /\ log' = Append(log, Ev("save", loopI))
    /\ loopI' = loopI + 1
    /\ UNCHANGED <<dvars, nvars, fvars, mvars, ePc, flat, u8_frames, err, target, preTarget, framesDir>>

\* the save raises (disk full)
SaveStillFails ==
    /\ ePc = "save" /\ ~StillsLoopDone
    /\ loopI < Len(u8_frames)
    /\ ePc' = "raised"
    /\ err' = "OSError"
    /\ UNCHANGED <<dvars, nvars, fvars, mvars, flat, u8_frames, loopI, log, fsvars>>

\* lines 118-121: ffmpeg -y muxes the image sequence into out_path
RunFfmpegOk ==
    /\ ePc = "save" /\ StillsLoopDone /\ env.ffmpeg = "ok"
    /\ target' = <<[by |-> "ffmpeg", frames |-> ImageSequence(stills, 0)]>>
    /\ log' = Append(log, Ev("ffmpeg", 0))
    /\ ePc' = "returned"
    /\ UNCHANGED <<dvars, nvars, fvars, mvars, flat, u8_frames, loopI, err, preTarget, framesDir, stills>>

\* lines 118-121: ffmpeg exits with an error, check=True raises
RunFfmpegFails ==
    /\ ePc = "save" /\ StillsLoopDone /\ env.ffmpeg = "fails"
    /\ log' = Append(log, Ev("ffmpeg", 0))
    /\ ePc' = "raised"
    /\ err' = "CalledProcessError"
    /\ UNCHANGED <<dvars, nvars, fvars, mvars, flat, u8_frames, loopI, fsvars>>

\* lines 122-127: without ffmpeg the function ends after the stills
StillsOnly ==
    /\ ePc = "save" /\ StillsLoopDone /\ env.ffmpeg = "absent"
    /\ ePc' = "returned"
    /\ UNCHANGED <<dvars, nvars, fvars, mvars, flat, u8_frames, loopI, err, log, fsvars>>

----------------------------------------------------------------------------
(* Spec: runs of the script on one out_path *)

Init ==
    /\ IdleNorm /\ IdleFlat /\ IdleDownload
    /\ run = 1
    /\ env \in Envs
    /\ saveDir \in BOOLEAN
    /\ mFrames \in PipelineFrames
    /\ mPc = "start"
    /\ dumped = <<>> /\ printed = <<>>
    /\ IdleExport
    /\ target = <<>> /\ preTarget = <<>> /\ framesDir = FALSE /\ stills = NoStills

Next ==
    \/ MissingDeps
    \/ RunPipeline
    \/ DumpFrames
    \/ ExportFlatten
    \/ ExportNormalize
    \/ ExportToVideoOk
    \/ ExportToVideoFails
    \/ have_ffmpeg
    \/ MkFramesDir
    \/ MkFramesDirFails
    \/ SaveStill
    \/ SaveStillFails
    \/ RunFfmpegOk
    \/ RunFfmpegFails
    \/ StillsOnly
    \/ ExportEnds
    \/ PrintSaved
    \/ NextRun

Spec == Init /\ [][Next]_vars

----------------------------------------------------------------------------
(* SpecLock: runs of hf_download.py on one --repo and --dest *)

InitLock ==
    /\ IdleNorm /\ IdleFlat /\ IdleScript
    /\ dRun = 1 /\ dPc = "start"
    /\ dArgs \in DownloadArgs
    /\ dExit = 0 - 1
    /\ destFiles = NoFiles /\ lockFile = <<>>

NextLock ==
    \/ MissingHub
    \/ ModelInfoFails
    \/ ResolveCommit
    \/ SnapshotFails
    \/ SnapshotOk
    \/ WriteLock
    \/ NextDownload

SpecLock == InitLock /\ [][NextLock]_vars

----------------------------------------------------------------------------
(* SpecNorm: one call of _normalize_hwcn on an arbitrary input *)

InitNorm ==
    /\ nPc = "call"
    /\ nIn \in Inputs
    /\ nOut = Raised
    /\ IdleFlat /\ IdleScript /\ IdleDownload

Normalize ==
    /\ nPc = "call"
    /\ nOut' = _normalize_hwcn(nIn)
    /\ nPc' = IF nOut'.ok THEN "returned" ELSE "raised"
    /\ UNCHANGED <<nIn, fvars, mvars, evars, fsvars, dvars>>

NextNorm == Normalize

SpecNorm == InitNorm /\ [][NextNorm]_vars

----------------------------------------------------------------------------
(* SpecFlat: one call of _flatten_frames on an arbitrary sequence *)

InitFlat ==
    /\ fPc = "call"
    /\ fSeq \in FlatInputs
    /\ fFlat = <<>>
    /\ IdleNorm /\ IdleScript /\ IdleDownload

Flatten ==
    /\ fPc = "call"
    /\ fFlat' = _flatten_frames(fSeq)
    /\ fPc' = "returned"
    /\ UNCHANGED <<fSeq, nvars, mvars, evars, fsvars, dvars>>

NextFlat == Flatten

SpecFlat == InitFlat /\ [][NextFlat]_vars

----------------------------------------------------------------------------
(* Properties of _normalize_hwcn, checked under SpecNorm *)

IsRGB8(a) == Ndim(a) = 3 /\ Last(a.shape, 1) = 3 /\ a.dtype = "uint8"

\* the element the output position k is taken from
SourceAt(k) == ToHWC(nIn).arr.data[k]

InUnit(a) == \A k \in 1..Size(a) : a.data[k] \in 0..Den

\* the nearest integer to n/d, ties to the even neighbour
RoundHalfEven(n, d) ==
    CHOOSE q \in 0..(n + 1) :
        /\ 2 * q * d - d <= 2 * n
        /\ 2 * n <= 2 * q * d + d
        /\ (2 * n = 2 * q * d - d \/ 2 * n = 2 * q * d + d) => q % 2 = 0

\* the largest integer not above n/d
Floor(n, d) == CHOOSE q \in 0..n : q * d <= n /\ n < (q + 1) * d

\* C1 (as claimed): every input of rank 2..5 yields a uint8 array of shape
\* (H, W, 3).
C1_AlwaysRGB8 ==
    (nPc # "call" /\ Ndim(nIn) \in 2..5) => (nPc = "returned" /\ IsRGB8(nOut.arr))

\* C2 (as claimed): the call never raises for the input's shape; an input
\* that keeps more than 3 axes after the squeeze continues with its last 3.
C2_NeverRaisesForShape ==
    nPc # "call" =>
        /\ nOut.ok
        /\ Ndim(Squeeze(nIn)) > 3 =>
              SubSeq(nOut.arr.shape, 1, 2) =
                  <<Last(Squeeze(nIn).shape, 3), Last(Squeeze(nIn).shape, 2)>>

C10_NonFiniteMapping ==
    (nPc = "returned" /\ nIn.dtype = "float") =>
        LET clean == _normalize_hwcn(Map(nIn, LAMBDA x : IF IsFinite(x) THEN x ELSE 0))
        IN  \A k \in 1..Size(nOut.arr) :
                /\ SourceAt(k) = NaN => nOut.arr.data[k] = 0
                /\ SourceAt(k) = PosInf => nOut.arr.data[k] = 255
                /\ SourceAt(k) = NegInf => nOut.arr.data[k] = 0
                /\ IsFinite(SourceAt(k)) =>
                      /\ nOut.arr.data[k] = clean.arr.data[k]
                      /\ nOut.arr.data[k] = Floor(Clip01(SourceAt(k)) * 255, Den)

\* a float input holding NaN, both infinities and a finite value above 0 has
\* been normalized
C10_Witness ==
    /\ nPc = "returned" /\ nIn.dtype = "float"
    /\ {NaN, PosInf, NegInf} \subseteq Range(nIn.data)
    /\ \E k \in 1..Size(nIn) : nIn.data[k] \in 1..Den
    /\ {0, 255} \subseteq Range(nOut.arr.data)

----------------------------------------------------------------------------
(* Properties of _flatten_frames, checked under SpecFlat *)

\* the shape without its leading axes of length 1, at least 3 axes being kept
RECURSIVE DropOnes(_)
DropOnes(sh) == IF Len(sh) > 3 /\ Head(sh) = 1 THEN DropOnes(Tail(sh)) ELSE sh

\* the i-th (from 0) of the n equal parts of an element's data
Part(e, n, i) ==
    [j \in 1..(Size(e) \div n) |-> e.data[i * (Size(e) \div n) + j]]

\* an element expands when Stacked holds of its shape without leading ones
Expansion(e, Stacked(_)) ==
    LET sh == DropOnes(e.shape)
    IN  IF Stacked(sh)
        THEN [i \in 1..Head(sh) |-> Arr(Tail(sh), e.dtype, Part(e, Head(sh), i - 1))]
        ELSE <<Arr(sh, e.dtype, e.data)>>

RECURSIVE Concat(_)
Concat(ss) == IF ss = <<>> THEN <<>> ELSE Head(ss) \o Concat(Tail(ss))

Expected(seq, Stacked(_)) ==
    Concat([i \in 1..Len(seq) |-> Expansion(seq[i], Stacked)])

\* C4 (as claimed): an element of rank 4 with leading dimension N > 1 is
\* replaced by its N slices, every other element is kept as one item, and
\* the output is the concatenation in element order.
C4_SplitsRank4Only ==
    fPc = "returned" =>
        fFlat = Expected(fSeq, LAMBDA sh : Len(sh) = 4 /\ Head(sh) > 1)

\* C4 (amended): an element of rank above 3 with leading dimension N > 1 is
\* replaced by its N slices along the leading axis, every other element is
\* kept as one item, and the output is the concatenation in element order.
C4_SplitsRankAbove3 ==
    fPc = "returned" =>
        fFlat = Expected(fSeq, LAMBDA sh : Len(sh) > 3 /\ Head(sh) > 1)

\* a stack behind a batch axis and then a rank-5 element with leading
\* dimension above 1 have been flattened
C4_Witness ==
    /\ fPc = "returned" /\ Len(fSeq) = 2
    /\ Ndim(fSeq[1]) = 5 /\ fSeq[1].shape[1] = 1 /\ fSeq[1].shape[2] > 1
    /\ Ndim(fSeq[2]) = 5 /\ fSeq[2].shape[1] > 1
    /\ Len(fFlat) = fSeq[1].shape[2] + fSeq[2].shape[1]
    /\ Ndim(fFlat[1]) = 3 /\ Ndim(fFlat[Len(fFlat)]) = 4

----------------------------------------------------------------------------
(* Properties of export_frames_to_video and main, checked under Spec *)

Saves(l) == SelectSeq(l, LAMBDA e : e.op = "save")

WritesTarget(l) == Ops(l) \cap {"export_to_video", "ffmpeg"} # {}

\* the current call wrote frame_0000 .. frame_{n-1} once each, in that order,
\* and the directory holds them
WroteStills(n) ==
    /\ framesDir
    /\ Len(Saves(log)) = n
    /\ \A k \in 1..n : Saves(log)[k].idx = k - 1 /\ stills[k - 1] = <<u8_frames[k]>>

NoLibNoEncoder == ~env.lib /\ env.ffmpeg = "absent"

\* C5 (as claimed): a call without export library and without encoder writes
\* exactly len(frames) stills frame_0000 .. frame_{len(frames)-1} into
\* <stem>_frames, and no file exists at the target path afterwards.
C5_StillsAndNoFileAtTarget ==
    (ePc = "returned" /\ NoLibNoEncoder) =>
        WroteStills(Len(flat)) /\ target = <<>>

\* C5 (amended): such a call writes exactly len(frames) stills (frames as
\* flattened by line 103) and writes no file at the target path: what is at
\* the target path afterwards is what was there before the call.
C5_StillsAndTargetUntouched ==
    (ePc = "returned" /\ NoLibNoEncoder) =>
        WroteStills(Len(flat)) /\ ~WritesTarget(log) /\ target = preTarget

\* a call without library and encoder has returned after two or more stills,
\* on a target path that held a video of an earlier run
C5_Witness ==
    /\ ePc = "returned" /\ NoLibNoEncoder
    /\ Len(flat) >= 2 /\ stills[1] # <<>>
    /\ preTarget # <<>>

\* C6: when export_to_video succeeds, the call writes one file, at the target
\* path, holding the normalized frames, writes no still and never runs ffmpeg.
C6_LibraryPathWritesOnlyTarget ==
    (ePc = "returned" /\ "export_to_video" \in Ops(log)) =>
        /\ log = <<Ev("export_to_video", 0)>>
        /\ target = <<[by |-> "export_to_video", frames |-> u8_frames]>>
        /\ Len(u8_frames) = Len(flat)

\* export_to_video has succeeded on two or more frames, on a machine where
\* ffmpeg is installed, and the call has returned
C6_Witness ==
    /\ ePc = "returned" /\ "export_to_video" \in Ops(log)
    /\ env.ffmpeg = "ok" /\ Len(u8_frames) >= 2

\* C7 (as claimed): a failure of export_to_video falls through to the encoder
\* path, and an encoder that is present but exits with an error ends in the
\* still-image degradation, not in an error raised to the caller.
C7_EncoderFailureDegrades ==
    /\ (~env.lib /\ ePc \in {"probe", "mkdir", "save"}) => err = "none"
    /\ (env.ffmpeg = "fails" /\ "ffmpeg" \in Ops(log)) =>
          (ePc = "returned" /\ err = "none" /\ WroteStills(Len(flat)))

\* C8: every frame is flattened and normalized, in order, before any export
\* path starts: the call touches nothing outside before u8_frames is
\* complete, a call that normalization ends with an error has written
\* nothing, and the k-th still written is the k-th normalized frame.
C8_NormalizedBeforeExport ==
    /\ log # <<>> => Len(u8_frames) = Len(flat)
    /\ (ePc = "raised" /\ err = "ValueError") => (log = <<>> /\ target = preTarget)
    /\ \A k \in 1..Len(u8_frames) : u8_frames[k] = _normalize_hwcn(flat[k]).arr
    /\ \A k \in 1..Len(Saves(log)) :
          Saves(log)[k].idx = k - 1 /\ stills[k - 1] = <<u8_frames[k]>>

\* normalization has raised on a later frame, after an earlier frame was
\* normalized, in a run that follows one that left stills
C8_Witness ==
    /\ ePc = "raised" /\ err = "ValueError"
    /\ Len(u8_frames) >= 1
    /\ run >= 2 /\ stills[0] # <<>>

\* C9 (as claimed): when main returns 0, the artifact it printed as saved,
\* out_path, was written by this run.
C9_PrintedArtifactWasWritten ==
    mPc = "returned0" =>
        /\ "Saved -> out_path" \in Range(printed)
        /\ WritesTarget(log) /\ target # <<>>

----------------------------------------------------------------------------
(* Properties of hf_download.py, checked under SpecLock *)

\* C11 (as claimed): the lock file a successful run writes records path,
\* SHA-256 and size of exactly the files of the snapshot that run
\* materialized under its include and exclude patterns, and of no other file.
C11_LockRecordsExactlyTheSnapshot ==
    (dPc = "done" /\ dExit = 0) =>
        /\ lockFile # <<>>
        /\ lockFile[1].files =
              {[path |-> q,
                sha256 |-> sha256_file(Blob(q, dArgs.revision)),
                size |-> StSize(Blob(q, dArgs.revision))] :
                  q \in Selected(RepoTree(dArgs.revision),
                                 parse_patterns(dArgs.include),
                                 parse_patterns(dArgs.exclude))}

----------------------------------------------------------------------------
(* Properties over several calls and of the dump, checked under Spec and *)
(* SpecNorm *)

\* C12 (as claimed): when a call that wrote stills returns, <stem>_frames
\* holds exactly that call's stills frame_0000 .. frame_{n-1}, whatever
\* earlier calls left there, and the encoder has muxed exactly the n frames
\* of the call.
C12_FramesDirHoldsOnlyCurrentStills ==
    (ePc = "returned" /\ "save" \in Ops(log)) =>
        /\ \A j \in 0..(MaxFrames - 1) :
              stills[j] = IF j < Len(u8_frames) THEN <<u8_frames[j + 1]>> ELSE <<>>
        /\ "ffmpeg" \in Ops(log) =>
              target = <<[by |-> "ffmpeg", frames |-> u8_frames]>>

\* C13 (as claimed): a uint8 array of shape (H, W, 3) with H, W >= 1 is
\* returned with the same shape and the same values, and normalizing a
\* normalized frame again changes nothing.
C13_IdentityOnWellFormedFrames ==
    /\ (nPc # "call" /\ nIn.dtype = "uint8" /\ Ndim(nIn) = 3 /\ nIn.shape[3] = 3) =>
          (nPc = "returned" /\ nOut.arr = nIn)
    /\ (nPc = "returned" /\ IsRGB8(nOut.arr)) => _normalize_hwcn(nOut.arr) = nOut

\* C14 (as claimed): whenever export_frames_to_video succeeds on main's
\* frames, the --save-frames-dir dump succeeds too and writes the frames the
\* export encodes, in the same order.
C14_DumpMatchesExport ==
    /\ (saveDir /\ mPc = "raised" /\ ePc = "idle") =>
          ~_to_uint8_frames(_flatten_frames(Iterate(mFrames))).ok
    /\ (saveDir /\ ePc = "returned") => dumped = u8_frames

====
